---------------------------- MODULE Spec2Model ----------------------------
(***************************************************************************)
(* Model of generate_api_key.py: a command-line tool that parses -l/--length*)
(* and -p/--prefix with argparse, draws `length` characters from the        *)
(* 62-character alphabet with secrets.choice, and prints prefix + key.      *)
(*                                                                          *)
(* Strings are sequences of one-character strings; standard output and      *)
(* standard error are character streams.                                    *)
(***************************************************************************)
EXTENDS Integers, Sequences, FiniteSets, TLC

VARIABLES
    pc,         \* phase of the script: Start, ParseArgs, Generate, Print, Exit
    argv,       \* sys.argv[1:], a sequence of strings
    parser,     \* the ArgumentParser's registered defaults (<<>> before it is built)
    args,       \* the Namespace returned by parse_args (<<>> before parsing)
    gen,        \* generate_api_key's frame: "idle", "loop" or "returned"
    length,     \* generate_api_key's parameter
    i,          \* number of values range(length) has yielded
    chars,      \* the characters the generator expression has produced
    entropy,    \* the last index read from the OS entropy source (-1: none)
    api_key,    \* the module-level api_key of line 21
    stdout,     \* characters written to standard output
    stderr,     \* characters written to standard error
    exit_code   \* the process's exit status (-1 while it runs)

vars == <<pc, argv, parser, args, gen, length, i, chars, entropy, api_key,
          stdout, stderr, exit_code>>

-----------------------------------------------------------------------------
(* Bounds of the model *)

\* longest command line enumerated
MaxArgs == 4

\* longest random segment enumerated with every draw of the entropy source
MaxLen == 2

\* step between consecutive draws on the entropy tapes of SpecDefault
TapeStride == 1

-----------------------------------------------------------------------------
(* Constants of the program *)

\* string.ascii_letters + string.digits
alphabet ==
    << "a","b","c","d","e","f","g","h","i","j","k","l","m",
       "n","o","p","q","r","s","t","u","v","w","x","y","z",
       "A","B","C","D","E","F","G","H","I","J","K","L","M",
       "N","O","P","Q","R","S","T","U","V","W","X","Y","Z",
       "0","1","2","3","4","5","6","7","8","9" >>

\* the characters int() reads as decimal digits, in order of value
Digits == << "0","1","2","3","4","5","6","7","8","9" >>

\* default=32 of --length
DefaultLength == 32

\* default="" of --prefix
DefaultPrefix == << >>

\* mutant of HelpOpts: the parser is built with add_help=False
HelpOpts_none == { }

\* option strings registered by add_argument, and argparse's own help option
LengthOpts == { <<"-","l">>, <<"-","-","l","e","n","g","t","h">> }
PrefixOpts == { <<"-","p">>, <<"-","-","p","r","e","f","i","x">> }
HelpOpts   == { <<"-","h">>, <<"-","-","h","e","l","p">> }

\* what print_help writes to standard output (two lines, abridged)
HelpText == << "usage: [-h] [-l LENGTH] [-p PREFIX]", "\n",
               "Generate a secure API key", "\n" >>

\* what parser.error writes to standard error (abridged)
UsageError == << "usage: [-h] [-l LENGTH] [-p PREFIX]", "\n", "error", "\n" >>


-----------------------------------------------------------------------------
(* int(): optional sign, then one or more decimal digits (surrounding       *)
(* whitespace and underscores, which int() also accepts, are not enumerated)*)

IsDigit(c) == \E d \in 1..Len(Digits) : Digits[d] = c

DigitVal(c) == (CHOOSE d \in 1..Len(Digits) : Digits[d] = c) - 1

IsSign(c) == c = "-" \/ c = "+"

\* the digits of s, sign removed
Magnitude(s) == IF s # << >> /\ IsSign(s[1]) THEN Tail(s) ELSE s

\* whether int(s) succeeds (no ValueError)
IsInt(s) ==
    /\ Magnitude(s) # << >>
    /\ \A k \in 1..Len(Magnitude(s)) : IsDigit(Magnitude(s)[k])

RECURSIVE DecimalValue(_)
DecimalValue(ds) ==
    IF ds = << >> THEN 0
    ELSE 10 * DecimalValue(SubSeq(ds, 1, Len(ds) - 1)) + DigitVal(ds[Len(ds)])

\* int(s) for a string int() accepts
IntOf(s) ==
    IF s[1] = "-" THEN 0 - DecimalValue(Magnitude(s)) ELSE DecimalValue(Magnitude(s))

-----------------------------------------------------------------------------
(* argparse, as configured by lines 13-17 *)

\* argparse's _negative_number_matcher: '-' followed by digits
NegativeNumberLike(s) ==
    /\ Len(s) >= 2
    /\ s[1] = "-"
    /\ \A k \in 2..Len(s) : IsDigit(s[k])

\* whether argparse classifies the argument string as an option ('O') and not
\* as an argument ('A'); the parser has no option that looks like a negative
\* number, so a negative number is an argument
LooksLikeOption(s) ==
    /\ s # << >>
    /\ s[1] = "-"
    /\ \/ s \in LengthOpts \cup PrefixOpts \cup HelpOpts
       \/ Len(s) > 1 /\ ~NegativeNumberLike(s)

\* mutant of Defaults: the defaults of the two options are not the documented ones
Defaults_other == [length |-> 16, prefix |-> << "k", "e", "y", "_" >>]

\* the Namespace before any option is seen: the registered defaults
Defaults == [length |-> DefaultLength, prefix |-> DefaultPrefix]

\* results of parse_args: a Namespace, or SystemExit from print_help / error
ParseOk(ns)   == [status |-> "ok", ns |-> ns]
ParseHelp     == [status |-> "help", ns |-> << >>]
ParseError    == [status |-> "error", ns |-> << >>]

\* whether option argv[k] is followed by the one argument it takes (nargs=None)
HasArgument(av, k) == k + 1 <= Len(av) /\ ~LooksLikeOption(av[k + 1])

\* parse_known_args' loop from position k on, then parse_args' check of the
\* unrecognized arguments collected in extras
RECURSIVE ParseFrom(_, _, _, _)
ParseFrom(av, k, ns, extras) ==
    IF k > Len(av)
    THEN IF extras # << >> THEN ParseError ELSE ParseOk(ns)
    ELSE IF av[k] \in HelpOpts
    THEN ParseHelp
    ELSE IF av[k] \in LengthOpts
    THEN IF ~HasArgument(av, k) THEN ParseError
         ELSE IF ~IsInt(av[k + 1]) THEN ParseError
         ELSE ParseFrom(av, k + 2, [ns EXCEPT !.length = IntOf(av[k + 1])], extras)
    ELSE IF av[k] \in PrefixOpts
    THEN IF ~HasArgument(av, k) THEN ParseError
         ELSE ParseFrom(av, k + 2, [ns EXCEPT !.prefix = av[k + 1]], extras)
    ELSE ParseFrom(av, k + 1, ns, Append(extras, av[k]))

\* parser.parse_args() on the command line av
parse_args(defaults, av) == ParseFrom(av, 1, defaults, << >>)

-----------------------------------------------------------------------------
(* secrets *)

\* secrets.randbelow(n): any of 0 .. n-1
randbelow(n) == 0 .. (n - 1)

\* the draws of an entropy tape that advances by TapeStride: the first draw
\* is any index, each later one follows the one before
TapeBelow(n) ==
    IF entropy = -1 THEN randbelow(n) ELSE { (entropy + TapeStride) % n }

\* mutant of RangeHasNext: range(length + 1)
RangeHasNext_inclusive(n, k) == k <= n

\* mutant of RangeHasNext: range(abs(length))
RangeHasNext_abs(n, k) == k < (IF n < 0 THEN 0 - n ELSE n)

\* range(n): whether the iterator yields another value after k values
RangeHasNext(n, k) == k < n

-----------------------------------------------------------------------------
(* Command lines enumerated: option strings, an unknown flag, integers     *)
(* (zero, positive, negative) and plain words. Abbreviated options          *)
(* (--len), the --opt=value and -lVALUE forms and the -- separator are not  *)
(* enumerated, so ParseFrom does not model them.                            *)

Tokens ==
    { <<"-","-","l","e","n","g","t","h">>, <<"-","p">>, <<"-","h">>,
      <<"-","-","b","o","g","u","s">>,
      <<"0">>, <<"2">>, <<"-","5">>, <<"-","1">>,
      <<"a","b","c">>, <<"s","k","_">> }

Argvs == UNION { [1..n -> Tokens] : n \in 0..MaxArgs }

\* command lines whose random segment is short enough to enumerate every draw
ShortRun(av) ==
    LET r == parse_args(Defaults, av)
    IN  r.status = "ok" => r.ns.length <= MaxLen

-----------------------------------------------------------------------------
(* The script *)

InitWith(av) ==
    /\ pc = "Start"
    /\ argv = av
    /\ parser = << >>
    /\ args = << >>
    /\ gen = "idle"
    /\ length = DefaultLength
    /\ i = 0
    /\ chars = << >>
    /\ entropy = -1
    /\ api_key = << >>
    /\ stdout = << >>
    /\ stderr = << >>
    /\ exit_code = -1

Init == \E av \in { a \in Argvs : ShortRun(a) } : InitWith(av)

InitDefault == \E av \in Argvs : InitWith(av)

\* lines 13-17: build the parser and register the two options
BuildParser ==
    /\ pc = "Start"
    /\ parser' = Defaults
    /\ pc' = "ParseArgs"
    /\ UNCHANGED <<argv, args, gen, length, i, chars, entropy, api_key,
                   stdout, stderr, exit_code>>

\* mutant of ParseArgsOk: the key is printed without being generated
ParseArgsOk_skip ==
    /\ pc = "ParseArgs"
    /\ parse_args(parser, argv).status = "ok"
    /\ args' = parse_args(parser, argv).ns
    /\ pc' = "Print"
    /\ UNCHANGED <<argv, parser, gen, length, i, chars, entropy, api_key,
                   stdout, stderr, exit_code>>

\* line 19, parse succeeds
ParseArgsOk ==
    /\ pc = "ParseArgs"
    /\ parse_args(parser, argv).status = "ok"
    /\ args' = parse_args(parser, argv).ns
    /\ pc' = "Generate"
    /\ UNCHANGED <<argv, parser, gen, length, i, chars, entropy, api_key,
                   stdout, stderr, exit_code>>

\* line 19, -h/--help reached: print_help to stdout, then exit(0)
ParseArgsHelp ==
    /\ pc = "ParseArgs"
    /\ parse_args(parser, argv).status = "help"
    /\ stdout' = stdout \o HelpText
    /\ exit_code' = 0
    /\ pc' = "Exit"
    /\ UNCHANGED <<argv, parser, args, gen, length, i, chars, entropy,
                   api_key, stderr>>

\* mutant of ParseArgsError: the error is swallowed and the run goes on with
\* the defaults
ParseArgsError_swallow ==
    /\ pc = "ParseArgs"
    /\ parse_args(parser, argv).status = "error"
    /\ args' = parser
    /\ pc' = "Generate"
    /\ UNCHANGED <<argv, parser, gen, length, i, chars, entropy, api_key,
                   stdout, stderr, exit_code>>

\* mutant of ParseArgsError: the usage and the message go to standard output
ParseArgsError_stdout ==
    /\ pc = "ParseArgs"
    /\ parse_args(parser, argv).status = "error"
    /\ stdout' = stdout \o UsageError
    /\ exit_code' = 2
    /\ pc' = "Exit"
    /\ UNCHANGED <<argv, parser, args, gen, length, i, chars, entropy,
                   api_key, stderr>>

\* line 19, parser.error: usage and message to stderr, then exit(2)
ParseArgsError ==
    /\ pc = "ParseArgs"
    /\ parse_args(parser, argv).status = "error"
    /\ stderr' = stderr \o UsageError
    /\ exit_code' = 2
    /\ pc' = "Exit"
    /\ UNCHANGED <<argv, parser, args, gen, length, i, chars, entropy,
                   api_key, stdout>>

\* line 21 calls generate_api_key(args.length); lines 6-8 bind its locals
CallGenerate ==
    /\ pc = "Generate"
    /\ gen = "idle"
    /\ gen' = "loop"
    /\ length' = args.length
    /\ i' = 0
    /\ chars' = << >>
    /\ UNCHANGED <<pc, argv, parser, args, entropy, api_key, stdout, stderr,
                   exit_code>>

\* line 9, one iteration: secrets.choice(alphabet) with index k
Choice(k) ==
    /\ pc = "Generate"
    /\ gen = "loop"
    /\ RangeHasNext(length, i)
    /\ i' = i + 1
    /\ entropy' = k
    /\ chars' = Append(chars, alphabet[k + 1])
    /\ UNCHANGED <<pc, argv, parser, args, gen, length, api_key, stdout,
                   stderr, exit_code>>

\* mutant of Return: generate_api_key(args.length) + args.prefix
Return_suffix ==
    /\ pc = "Generate"
    /\ gen = "loop"
    /\ ~RangeHasNext(length, i)
    /\ gen' = "returned"
    /\ api_key' = chars \o args.prefix
    /\ pc' = "Print"
    /\ UNCHANGED <<argv, parser, args, length, i, chars, entropy, stdout,
                   stderr, exit_code>>

\* lines 9-10 and 21: range is exhausted, join and return; prefix + key
Return ==
    /\ pc = "Generate"
    /\ gen = "loop"
    /\ ~RangeHasNext(length, i)
    /\ gen' = "returned"
    /\ api_key' = args.prefix \o chars
    /\ pc' = "Print"
    /\ UNCHANGED <<argv, parser, args, length, i, chars, entropy, stdout,
                   stderr, exit_code>>

\* line 22: print(api_key), then the script ends with status 0
PrintKey ==
    /\ pc = "Print"
    /\ stdout' = stdout \o api_key \o << "\n" >>
    /\ exit_code' = 0
    /\ pc' = "Exit"
    /\ UNCHANGED <<argv, parser, args, gen, length, i, chars, entropy,
                   api_key, stderr>>

\* mutant of ChoiceAny: sampling without replacement, as random.sample does
ChoiceAny_norepeat ==
    \E k \in randbelow(Len(alphabet)) :
        /\ \A j \in 1..Len(chars) : chars[j] # alphabet[k + 1]
        /\ Choice(k)

\* secrets.choice over every index
ChoiceAny == \E k \in randbelow(Len(alphabet)) : Choice(k)

\* secrets.choice along an entropy tape
ChoiceTape == \E k \in TapeBelow(Len(alphabet)) : Choice(k)

Next ==
    \/ BuildParser
    \/ ParseArgsOk
    \/ ParseArgsHelp
    \/ ParseArgsError
    \/ CallGenerate
    \/ ChoiceAny
    \/ Return
    \/ PrintKey

NextDefault ==
    \/ BuildParser
    \/ ParseArgsOk
    \/ ParseArgsHelp
    \/ ParseArgsError
    \/ CallGenerate
    \/ ChoiceTape
    \/ Return
    \/ PrintKey

\* every draw enumerated, random segments up to MaxLen
Spec == Init /\ [][Next]_vars

\* every command line, the default length included, along entropy tapes
SpecDefault == InitDefault /\ [][NextDefault]_vars

\* the interpreter runs the script to its end: no step waits on anything
FairSpec == Spec /\ WF_vars(Next)

-----------------------------------------------------------------------------
(* Vocabulary of the properties, written from the command-line contract and *)
(* not from the parser model                                                *)

\* the 62 alphanumeric characters: A-Z, a-z, 0-9
Alnum62 ==
    { "A","B","C","D","E","F","G","H","I","J","K","L","M",
      "N","O","P","Q","R","S","T","U","V","W","X","Y","Z" } \cup
    { "a","b","c","d","e","f","g","h","i","j","k","l","m",
      "n","o","p","q","r","s","t","u","v","w","x","y","z" } \cup
    { "0","1","2","3","4","5","6","7","8","9" }

AllAlnum(s) == \A k \in 1..Len(s) : s[k] \in Alnum62

IsLengthFlag(s) == s = <<"-","l">> \/ s = <<"-","-","l","e","n","g","t","h">>
IsPrefixFlag(s) == s = <<"-","p">> \/ s = <<"-","-","p","r","e","f","i","x">>
IsHelpFlag(s)   == s = <<"-","h">> \/ s = <<"-","-","h","e","l","p">>

\* a string that starts with '-' and is more than '-' and not a negative number
IsFlagLike(s) ==
    /\ Len(s) >= 2
    /\ s[1] = "-"
    /\ \E k \in 2..Len(s) : s[k] \notin { "0","1","2","3","4","5","6","7","8","9" }

\* a flag the program does not know
IsUnknownFlag(s) ==
    IsFlagLike(s) /\ ~IsLengthFlag(s) /\ ~IsPrefixFlag(s) /\ ~IsHelpFlag(s)

\* a decimal integer: optional sign, then digits
IsDecimal(s) ==
    LET body == IF s # << >> /\ s[1] \in {"-", "+"} THEN Tail(s) ELSE s
    IN  /\ body # << >>
        /\ \A k \in 1..Len(body) :
              body[k] \in { "0","1","2","3","4","5","6","7","8","9" }

\* the command line carries a help flag
HelpRequested(av) == \E k \in 1..Len(av) : IsHelpFlag(av[k])

\* the command line is malformed: a non-integer value for --length, or an
\* unrecognized flag
Malformed(av) ==
    \/ \E k \in 1..Len(av) : IsUnknownFlag(av[k])
    \/ \E k \in 1..(Len(av) - 1) : IsLengthFlag(av[k]) /\ ~IsDecimal(av[k + 1])

\* the command line is a list of options, each with a value it accepts
WellFormed(av) ==
    /\ Len(av) % 2 = 0
    /\ \A k \in 1..Len(av) :
          k % 2 = 1 =>
             /\ IsLengthFlag(av[k]) \/ IsPrefixFlag(av[k])
             /\ ~IsFlagLike(av[k + 1])
             /\ IsLengthFlag(av[k]) => IsDecimal(av[k + 1])

\* position of the last length option of a well-formed command line (0 when
\* there is none)
LastLengthOption(av) ==
    LET at == { k \in 1..Len(av) : k % 2 = 1 /\ IsLengthFlag(av[k]) }
    IN  IF at = {} THEN 0 ELSE CHOOSE k \in at : \A j \in at : j <= k

\* position of the last prefix option of a well-formed command line (0 when
\* there is none)
LastPrefixOption(av) ==
    LET at == { k \in 1..Len(av) : k % 2 = 1 /\ IsPrefixFlag(av[k]) }
    IN  IF at = {} THEN 0 ELSE CHOOSE k \in at : \A j \in at : j <= k

\* value of a one-digit or signed one-digit decimal of the enumeration
SmallInt(s) ==
    LET d == s[Len(s)]
        v == CASE d = "0" -> 0 [] d = "1" -> 1 [] d = "2" -> 2 [] d = "3" -> 3
               [] d = "4" -> 4 [] d = "5" -> 5 [] d = "6" -> 6 [] d = "7" -> 7
               [] d = "8" -> 8 [] d = "9" -> 9
    IN  IF s[1] = "-" THEN 0 - v ELSE v

\* the length a well-formed command line asks for
GivenLength(av) ==
    IF LastLengthOption(av) = 0 THEN 32
    ELSE SmallInt(av[LastLengthOption(av) + 1])

\* the prefix a well-formed command line asks for
GivenPrefix(av) ==
    IF LastPrefixOption(av) = 0 THEN << >>
    ELSE av[LastPrefixOption(av) + 1]

\* standard output is one key line for the command line av: the prefix, then
\* a segment of n alphanumeric characters, then a newline
IsKeyLine(out, av, n) ==
    /\ Len(out) = Len(GivenPrefix(av)) + n + 1
    /\ SubSeq(out, 1, Len(GivenPrefix(av))) = GivenPrefix(av)
    /\ AllAlnum(SubSeq(out, Len(GivenPrefix(av)) + 1, Len(out) - 1))
    /\ out[Len(out)] = "\n"

\* the process has exited
Exited == pc = "Exit"

-----------------------------------------------------------------------------
(* Properties *)

\* C1: for every length >= 0, generate_api_key(length) returns a string of
\* exactly `length` characters, each one of the 62 alphanumeric characters.
C1_LengthAndAlphabet ==
    (gen = "returned" /\ length >= 0) =>
        /\ Len(chars) = length
        /\ AllAlnum(chars)

C1_Witness ==
    gen = "returned" /\ length = 2 /\ chars = << "Z", "9" >>

\* C2: for every prefix and every length >= 0, a successful run writes to
\* standard output exactly the prefix, unchanged, then the random segment of
\* `length` characters, then a newline; for length 0 the line is the prefix.
C2_OutputIsPrefixThenKey ==
    (Exited /\ WellFormed(argv) /\ GivenLength(argv) >= 0) =>
        /\ exit_code = 0
        /\ Len(chars) = GivenLength(argv)
        /\ stdout = GivenPrefix(argv) \o chars \o << "\n" >>
        /\ GivenLength(argv) = 0 => stdout = GivenPrefix(argv) \o << "\n" >>

C2_Witness ==
    /\ Exited
    /\ argv = << <<"-","p">>, <<"s","k","_">>,
                 <<"-","-","l","e","n","g","t","h">>, <<"2">> >>
    /\ stdout = << "s", "k", "_", "a", "a", "\n" >>

C4_NegativeLengthClamped ==
    (WellFormed(argv) /\ GivenLength(argv) < 0) =>
        /\ chars = << >>
        /\ stdout # << >> => stdout = GivenPrefix(argv) \o << "\n" >>
        /\ Exited => exit_code = 0 /\ stdout = GivenPrefix(argv) \o << "\n" >>
                     /\ stderr = << >>

C4_Witness ==
    /\ Exited
    /\ argv = << <<"-","-","l","e","n","g","t","h">>, <<"-","5">>,
                 <<"-","p">>, <<"s","k","_">> >>
    /\ stdout = << "s", "k", "_", "\n" >>

\* the length of the random segment of a well-formed command line under the
\* clamp of C4
SegmentLength(av) == IF GivenLength(av) < 0 THEN 0 ELSE GivenLength(av)

\* C5 as stated: in every execution, whatever the arguments, standard output
\* holds either exactly one line <prefix><random-string> or nothing at all.
C5_Original ==
    \/ stdout = << >>
    \/ WellFormed(argv) /\ IsKeyLine(stdout, argv, SegmentLength(argv))

\* C5 as amended: in every execution standard output holds exactly one line
\* <prefix><random-string>, or nothing at all, or, when the command line
\* carries a help flag, the help text alone.
C5_OneKeyLineOrNothingOrHelp ==
    \/ stdout = << >>
    \/ WellFormed(argv) /\ IsKeyLine(stdout, argv, SegmentLength(argv))
    \/ HelpRequested(argv) /\ stdout = HelpText

C5_Witness ==
    /\ Exited
    /\ WellFormed(argv)
    /\ GivenPrefix(argv) = << "a", "b", "c" >>
    /\ IsKeyLine(stdout, argv, 2)
    /\ stdout = << "a", "b", "c", "7", "G", "\n" >>

\* the command line carries a help flag and every option before it has a
\* value it accepts
HelpReached(av) ==
    \E k \in 1..Len(av) :
        /\ IsHelpFlag(av[k])
        /\ \A j \in 1..(k - 1) :
              /\ (IsLengthFlag(av[j]) \/ IsPrefixFlag(av[j])) =>
                    ~IsFlagLike(av[j + 1])
              /\ IsLengthFlag(av[j]) => IsDecimal(av[j + 1])

\* C6 as stated: when the help flag is requested, the program prints usage
\* text and exits with status 0, without generating or printing a key.
C6_Original ==
    HelpRequested(argv) =>
        /\ gen = "idle"
        /\ Exited => /\ exit_code = 0
                     /\ stdout = HelpText \/ stderr = UsageError

\* C6 as amended: when the help flag is requested and every option before it
\* on the command line has a value it accepts, the program prints the usage
\* text to standard output and exits with status 0, without generating or
\* printing a key.
C6_HelpPrintsUsage ==
    HelpReached(argv) =>
        /\ gen = "idle"
        /\ chars = << >>
        /\ pc \in { "Start", "ParseArgs", "Exit" }
        /\ Exited => exit_code = 0 /\ stdout = HelpText /\ stderr = << >>

C6_Witness ==
    /\ Exited
    /\ argv = << <<"-","p">>, <<"s","k","_">>, <<"-","h">> >>
    /\ exit_code = 0
    /\ stdout = HelpText

\* C7: when --length is omitted the length is 32 and when --prefix is omitted
\* the prefix is empty, each whether or not the other option is given; with
\* both omitted the output line is exactly 32 alphanumeric characters.
C7_Defaults ==
    /\ (WellFormed(argv) /\ args # << >>) =>
          /\ (\A k \in 1..Len(argv) : ~IsLengthFlag(argv[k])) => args.length = 32
          /\ (\A k \in 1..Len(argv) : ~IsPrefixFlag(argv[k])) => args.prefix = << >>
    /\ (/\ WellFormed(argv)
        /\ gen = "returned"
        /\ \A k \in 1..Len(argv) : ~IsLengthFlag(argv[k])) => Len(chars) = 32
    /\ (argv = << >> /\ Exited) =>
          /\ Len(stdout) = 33
          /\ AllAlnum(SubSeq(stdout, 1, 32))
          /\ stdout[33] = "\n"

C7_Witness ==
    /\ Exited
    /\ argv = << >>
    /\ Len(stdout) = 33
    /\ stdout[1] = "Z"
    /\ stdout[32] = "u"

\* the command line is valid: well formed, with a length >= 0
ValidRun == WellFormed(argv) /\ GivenLength(argv) >= 0

\* the order of the phases
PhaseOrder ==
    { <<"Start", "ParseArgs">>, <<"ParseArgs", "Generate">>,
      <<"Generate", "Print">>, <<"Print", "Exit">> }

\* C9: every execution with valid arguments passes through Start, ParseArgs,
\* Generate, Print, Exit in that order, each once, with no branch back:
\* nothing is printed before the whole segment is generated, nothing is
\* generated before parsing succeeds, and the execution reaches Exit.
C9_LinearPhases ==
    /\ [][ValidRun => (pc' # pc => <<pc, pc'>> \in PhaseOrder)]_vars
    /\ [](ValidRun =>
            /\ stdout # << >> => gen = "returned" /\ Len(chars) = GivenLength(argv)
            /\ (gen # "idle" \/ chars # << >>) => args # << >>
            /\ pc = "Print" => gen = "returned" /\ Len(chars) = GivenLength(argv))
    /\ [](ValidRun => <>(Exited /\ exit_code = 0 /\ stdout # << >>))

C9_Witness ==
    /\ Exited
    /\ ValidRun
    /\ Len(chars) = 2
    /\ stdout # << >>

\* C10: sampling is with replacement over the whole alphabet at every
\* position: wherever the loop of generate_api_key stands, whatever the
\* prefix and whatever was drawn before, each of the 62 characters can be
\* the next one, so every string of the requested length is a possible result.
C10_EveryStringPossible ==
    (gen = "loop" /\ i < length) =>
        \A c \in Alnum62 : ENABLED (Next /\ chars' = Append(chars, c))

C10_Witness ==
    /\ gen = "returned"
    /\ args.prefix = << "s", "k", "_" >>
    /\ chars = << "q", "q" >>

=============================================================================
